---- MODULE Spec2Model ----
(***************************************************************************)
(* Model of MazeSolver (maze_solver.py): an A* reachability search over a  *)
(* 0/1 grid with a Manhattan heuristic.                                    *)
(*                                                                         *)
(* Coordinates are pairs <<row, col>>; Python's pos[0], pos[1] are pos[1], *)
(* pos[2] here.  The grid is a sequence of rows, as the list of lists the  *)
(* loader builds; Python's 0-based maze[r][c] is read through MazeAt.      *)
(***************************************************************************)
EXTENDS Integers, Sequences, FiniteSets, TLC

VARIABLES
    maze, rows, cols,        \* fields of the solver object
    pc,                      \* "idle" | "loop" (line 63) | "visit" (line 81) |
                             \* "done" | "raised"
    start, end,              \* arguments of the find_path call in progress
    result,                  \* return value of find_path, meaningful when pc = "done"
    locals,                  \* names of the search locals bound in the current frame
    counter, open_set, g_score, open_set_hash, best_goal_cost,
    current_f, current, current_g,   \* locals of the loop body
    todo,                    \* neighbors the for loop has still to visit
    probe,                   \* last direct call of _heuristic / _get_neighbors
    closed,                  \* history: coordinates popped so far in this call
    earlier,                 \* history: the solver has answered a call before
    other                    \* a second find_path call in flight: its arguments, position and locals

vars == <<maze, rows, cols, pc, start, end, result, locals,
          counter, open_set, g_score, open_set_hash, best_goal_cost,
          current_f, current, current_g, todo, probe, closed, earlier, other>>

solver == <<maze, rows, cols>>
frame == <<locals, counter, open_set, g_score, open_set_hash, best_goal_cost,
           current_f, current, current_g, todo>>
call == <<pc, start, end, result>>

----------------------------------------------------------------------------
(* Bounds of the exploration *)

MaxRows == 2          \* every 0/1 grid of MaxRows x MaxCols is explored
MaxCols == 2

(* Larger grids explored besides the exhaustive small ones. *)
MazeDetour ==         \* a cost is improved while its cell is still queued
    << <<0, 0, 0, 0>>,
       <<0, 0, 1, 0>>,
       <<1, 0, 0, 0>>,
       <<0, 1, 0, 0>> >>

MazeLate ==           \* a queued cell keeps a stale priority past the goal pop
    << <<1, 1, 0, 0, 0, 0, 0, 0>>,
       <<0, 1, 0, 1, 1, 0, 1, 0>>,
       <<0, 1, 0, 1, 0, 0, 1, 0>>,
       <<0, 0, 0, 0, 0, 0, 0, 0>> >>

MazeWalled ==         \* single open cell surrounded by walls
    << <<1, 1, 1>>,
       <<1, 0, 1>>,
       <<1, 1, 1>> >>

SmallMazes == [1..MaxRows -> [1..MaxCols -> {0, 1}]]
NamedMazes == {MazeDetour, MazeLate, MazeWalled}
Mazes == SmallMazes \cup NamedMazes

(* Coordinates passed to the solver: every cell of the grid and the first  *)
(* coordinate beyond each border, negative or too large.                   *)
Coords == {<<r, c>> : r \in -1..rows, c \in -1..cols}

----------------------------------------------------------------------------
(* Python values *)

None == -1            \* best_goal_cost = None; recorded costs are never negative

Abs(x) == IF x < 0 THEN 0 - x ELSE x

Min(a, b) == IF a < b THEN a ELSE b

(* seq[i] for a Python list: negative indexes count from the end, anything *)
(* outside -len..len-1 raises IndexError.                                  *)
PyIndexable(seq, i) == (0 - Len(seq)) <= i /\ i < Len(seq)

PyGet(seq, i) == IF i >= 0 THEN seq[i + 1] ELSE seq[Len(seq) + i + 1]

MazeIndexable(pos) ==
    /\ PyIndexable(maze, pos[1])
    /\ PyIndexable(PyGet(maze, pos[1]), pos[2])

MazeAt(pos) == PyGet(PyGet(maze, pos[1]), pos[2])

----------------------------------------------------------------------------
(* MazeSolver._heuristic *)

(* _heuristic without abs(). *)
heuristic_signed(pos, goal) == (pos[1] - goal[1]) + (pos[2] - goal[2])

(* _heuristic as a squared Euclidean distance. *)
heuristic_squared(pos, goal) ==
    (pos[1] - goal[1]) * (pos[1] - goal[1]) + (pos[2] - goal[2]) * (pos[2] - goal[2])

heuristic(pos, goal) == Abs(pos[1] - goal[1]) + Abs(pos[2] - goal[2])

(* MazeSolver._get_neighbors *)

(* directions with "right" replaced by the diagonal step down-right. *)
directions_diagonal == << <<-1, 0>>, <<1, 0>>, <<0, -1>>, <<1, 1>> >>

(* directions with the last offset repeating "left" instead of "right". *)
directions_no_right == << <<-1, 0>>, <<1, 0>>, <<0, -1>>, <<0, -1>> >>

directions == << <<-1, 0>>, <<1, 0>>, <<0, -1>>, <<0, 1>> >>

(* InGrid with the first row excluded (0 < r for 0 <= r). *)
InGrid_skip_row0(r, c) == 0 < r /\ r < rows /\ 0 <= c /\ c < cols

InGrid(r, c) == 0 <= r /\ r < rows /\ 0 <= c /\ c < cols

(* _get_neighbors without the maze[new_row][new_col] == 0 test. *)
RECURSIVE neighbors_from_any_cell(_, _, _)
neighbors_from_any_cell(pos, i, neighbors) ==
    IF i > Len(directions) THEN neighbors
    ELSE LET new_row == pos[1] + directions[i][1]
             new_col == pos[2] + directions[i][2]
         IN  IF InGrid(new_row, new_col)
             THEN neighbors_from_any_cell(pos, i + 1, Append(neighbors, <<new_row, new_col>>))
             ELSE neighbors_from_any_cell(pos, i + 1, neighbors)

RECURSIVE neighbors_from(_, _, _)
neighbors_from(pos, i, neighbors) ==
    IF i > Len(directions) THEN neighbors
    ELSE LET new_row == pos[1] + directions[i][1]
             new_col == pos[2] + directions[i][2]
         IN  IF InGrid(new_row, new_col) /\ MazeAt(<<new_row, new_col>>) = 0
             THEN neighbors_from(pos, i + 1, Append(neighbors, <<new_row, new_col>>))
             ELSE neighbors_from(pos, i + 1, neighbors)

get_neighbors(pos) == neighbors_from(pos, 1, << >>)

----------------------------------------------------------------------------
(* MazeSolver.find_path: validation *)

(* InBounds without the upper bound on the row. *)
InBounds_no_row_limit(pos) == 0 <= pos[1] /\ 0 <= pos[2] /\ pos[2] < cols

InBounds(pos) == 0 <= pos[1] /\ pos[1] < rows /\ 0 <= pos[2] /\ pos[2] < cols

(* validate with the start == end test made before the wall test. *)
validate_equal_first(s, e) ==
    IF ~InBounds(s) THEN "False"
    ELSE IF ~InBounds(e) THEN "False"
    ELSE IF s = e THEN "True"
    ELSE IF ~MazeIndexable(s) THEN "IndexError"
    ELSE IF MazeAt(s) = 1 THEN "False"
    ELSE IF ~MazeIndexable(e) THEN "IndexError"
    ELSE IF MazeAt(e) = 1 THEN "False"
    ELSE "search"

(* validate without the start == end shortcut: the search handles it. *)
validate_no_shortcut(s, e) ==
    IF ~InBounds(s) THEN "False"
    ELSE IF ~InBounds(e) THEN "False"
    ELSE IF ~MazeIndexable(s) THEN "IndexError"
    ELSE IF MazeAt(s) = 1 THEN "False"
    ELSE IF ~MazeIndexable(e) THEN "IndexError"
    ELSE IF MazeAt(e) = 1 THEN "False"
    ELSE "search"

(* Outcome of lines 45-52: "False", "True", "search", or "IndexError" when *)
(* the grid is indexed outside its lists.                                  *)
validate(s, e) ==
    IF ~InBounds(s) THEN "False"
    ELSE IF ~InBounds(e) THEN "False"
    ELSE IF ~MazeIndexable(s) THEN "IndexError"
    ELSE IF MazeAt(s) = 1 THEN "False"
    ELSE IF ~MazeIndexable(e) THEN "IndexError"
    ELSE IF MazeAt(e) = 1 THEN "False"
    ELSE IF s = e THEN "True"
    ELSE "search"

(* MazeSolver.find_path: the search state of lines 54-61 *)
NoFrame ==
    [counter |-> 0, open_set |-> {}, g_score |-> << >>,
     open_set_hash |-> {}, best_goal_cost |-> None,
     current_f |-> 0, current |-> <<0, 0>>, current_g |-> 0]

SearchLocals == {"counter", "open_set", "g_score", "open_set_hash", "best_goal_cost"}

init_search(s) ==
    [counter |-> 1,
     open_set |-> {<<0, 0, s>>},              \* (f_score, tie-breaker, position)
     g_score |-> (s :> 0),
     open_set_hash |-> {s},
     best_goal_cost |-> None,
     current_f |-> 0, current |-> <<0, 0>>, current_g |-> 0]   \* not yet bound

(* Python's tuple order on heap entries (f, counter, position). *)
PosLess(p, q) == p[1] < q[1] \/ (p[1] = q[1] /\ p[2] < q[2])

EntryLess(a, b) ==
    \/ a[1] < b[1]
    \/ a[1] = b[1] /\ a[2] < b[2]
    \/ a[1] = b[1] /\ a[2] = b[2] /\ PosLess(a[3], b[3])

(* heapq.heappop: the least entry (line 64) ... *)
heap_min(heap) == CHOOSE e \in heap : \A o \in heap : o = e \/ EntryLess(e, o)

(* heappop that reads the least entry and leaves it in the heap. *)
heappop_peek(fr, entry) == [fr EXCEPT !.open_set_hash = @ \ {entry[3]}]

(* heappop without the discard of line 65. *)
heappop_keep_member(fr, entry) == [fr EXCEPT !.open_set = @ \ {entry}]

(* ... which leaves the heap, and its coordinate the membership set (line 65). *)
heappop(fr, entry) ==
    [fr EXCEPT !.open_set = @ \ {entry},
               !.open_set_hash = @ \ {entry[3]}]

(* visit with the cost test of line 84 as tentative_g <= g_score[neighbor]. *)
visit_not_strict(fr, neighbor, goal) ==
    LET tentative_g == fr.current_g + 1
    IN  IF neighbor \notin DOMAIN fr.g_score \/ tentative_g <= fr.g_score[neighbor]
        THEN LET g2 == [p \in DOMAIN fr.g_score \cup {neighbor} |->
                           IF p = neighbor THEN tentative_g ELSE fr.g_score[p]]
                 f == tentative_g + heuristic(neighbor, goal)
             IN  IF neighbor \notin fr.open_set_hash
                 THEN [fr EXCEPT !.g_score = g2,
                                 !.open_set = @ \cup {<<f, fr.counter, neighbor>>},
                                 !.counter = @ + 1,
                                 !.open_set_hash = @ \cup {neighbor}]
                 ELSE [fr EXCEPT !.g_score = g2]
        ELSE fr

(* visit without the counter += 1 of line 90. *)
visit_same_counter(fr, neighbor, goal) ==
    LET tentative_g == fr.current_g + 1
    IN  IF neighbor \notin DOMAIN fr.g_score \/ tentative_g < fr.g_score[neighbor]
        THEN LET g2 == [p \in DOMAIN fr.g_score \cup {neighbor} |->
                           IF p = neighbor THEN tentative_g ELSE fr.g_score[p]]
                 f == tentative_g + heuristic(neighbor, goal)
             IN  IF neighbor \notin fr.open_set_hash
                 THEN [fr EXCEPT !.g_score = g2,
                                 !.open_set = @ \cup {<<f, fr.counter, neighbor>>},
                                 !.open_set_hash = @ \cup {neighbor}]
                 ELSE [fr EXCEPT !.g_score = g2]
        ELSE fr

(* Lines 82-91: the body of the for loop, for one neighbor. *)
visit(fr, neighbor, goal) ==
    LET tentative_g == fr.current_g + 1
    IN  IF neighbor \notin DOMAIN fr.g_score \/ tentative_g < fr.g_score[neighbor]
        THEN LET g2 == [p \in DOMAIN fr.g_score \cup {neighbor} |->
                           IF p = neighbor THEN tentative_g ELSE fr.g_score[p]]
                 f == tentative_g + heuristic(neighbor, goal)
             IN  IF neighbor \notin fr.open_set_hash
                 THEN [fr EXCEPT !.g_score = g2,
                                 !.open_set = @ \cup {<<f, fr.counter, neighbor>>},
                                 !.counter = @ + 1,
                                 !.open_set_hash = @ \cup {neighbor}]
                 ELSE [fr EXCEPT !.g_score = g2]
        ELSE fr

(* Line 81: the for loop over the neighbors, from the i-th on. *)
RECURSIVE explore(_, _, _, _)
explore(fr, neighbors, i, goal) ==
    IF i > Len(neighbors) THEN fr
    ELSE explore(visit(fr, neighbors[i], goal), neighbors, i + 1, goal)

(* pop_and_check with the early stop tested as current_f > best_goal_cost. *)
pop_and_check_strict(fr, goal) ==
    LET entry == heap_min(fr.open_set)
        popped == [heappop(fr, entry) EXCEPT !.current_f = entry[1],
                                             !.current = entry[3]]
    IN  IF entry[3] \notin DOMAIN fr.g_score
        THEN [frame |-> popped, outcome |-> "KeyError"]
        ELSE LET g == fr.g_score[entry[3]]
                 best == IF entry[3] # goal THEN fr.best_goal_cost
                         ELSE IF fr.best_goal_cost = None THEN g
                         ELSE Min(fr.best_goal_cost, g)
             IN  [frame |-> [popped EXCEPT !.current_g = g, !.best_goal_cost = best],
                  outcome |-> IF best # None /\ entry[1] > best
                              THEN "True" ELSE "continue"]

(* Lines 64-78: pop, read the cost, goal check and early stop, for a       *)
(* non-empty open_set.                                                     *)
pop_and_check(fr, goal) ==
    LET entry == heap_min(fr.open_set)
        popped == [heappop(fr, entry) EXCEPT !.current_f = entry[1],
                                             !.current = entry[3]]
    IN  IF entry[3] \notin DOMAIN fr.g_score
        THEN [frame |-> popped, outcome |-> "KeyError"]
        ELSE LET g == fr.g_score[entry[3]]
                 best == IF entry[3] # goal THEN fr.best_goal_cost
                         ELSE IF fr.best_goal_cost = None THEN g
                         ELSE Min(fr.best_goal_cost, g)
             IN  [frame |-> [popped EXCEPT !.current_g = g, !.best_goal_cost = best],
                  outcome |-> IF best # None /\ entry[1] >= best
                              THEN "True" ELSE "continue"]

(* Lines 64-93: one iteration of the while loop. *)
iteration(fr, goal) ==
    LET p == pop_and_check(fr, goal)
    IN  IF p.outcome = "continue"
        THEN [frame |-> explore(p.frame, get_neighbors(p.frame.current), 1, goal),
              outcome |-> "continue"]
        ELSE p

(* The while loop run to its end: the value find_path returns from it. *)
RECURSIVE search_loop(_, _)
search_loop(fr, goal) ==
    IF fr.open_set = {} THEN [frame |-> fr, outcome |-> "False"]
    ELSE LET it == iteration(fr, goal)
         IN  IF it.outcome = "continue" THEN search_loop(it.frame, goal) ELSE it

(* find_path as a function of its arguments on the current grid. *)
find_path(s, e) ==
    LET v == validate(s, e)
    IN  IF v = "search" THEN search_loop(init_search(s), e).outcome ELSE v

----------------------------------------------------------------------------
(* State machine *)

CurrentFrame ==
    [counter |-> counter, open_set |-> open_set, g_score |-> g_score,
     open_set_hash |-> open_set_hash, best_goal_cost |-> best_goal_cost,
     current_f |-> current_f, current |-> current, current_g |-> current_g]

SetFrame(fr) ==
    /\ counter' = fr.counter
    /\ open_set' = fr.open_set
    /\ g_score' = fr.g_score
    /\ open_set_hash' = fr.open_set_hash
    /\ best_goal_cost' = fr.best_goal_cost
    /\ current_f' = fr.current_f
    /\ current' = fr.current
    /\ current_g' = fr.current_g

(* No second call: the record of a caller that has not called. *)
NoOther == [pc |-> "idle", start |-> <<0, 0>>, end |-> <<0, 0>>, result |-> FALSE,
            frame |-> NoFrame]

NoProbe == [fn |-> "none", a |-> <<0, 0>>, b |-> <<0, 0>>, ret |-> 0, list |-> << >>]

(* MazeSolver.__init__ on a loaded rectangular 0/1 grid. *)
Init ==
    /\ maze \in Mazes
    /\ rows = Len(maze)
    /\ cols = IF Len(maze) > 0 THEN Len(maze[1]) ELSE 0
    /\ pc = "idle"
    /\ start = <<0, 0>>
    /\ end = <<0, 0>>
    /\ result = FALSE
    /\ locals = {}
    /\ counter = NoFrame.counter
    /\ open_set = NoFrame.open_set
    /\ g_score = NoFrame.g_score
    /\ open_set_hash = NoFrame.open_set_hash
    /\ best_goal_cost = NoFrame.best_goal_cost
    /\ current_f = NoFrame.current_f
    /\ current = NoFrame.current
    /\ current_g = NoFrame.current_g
    /\ todo = << >>
    /\ probe = NoProbe
    /\ closed = {}
    /\ earlier = FALSE
    /\ other = NoOther

(* find_path(s, e) is called: lines 45-61, up to the first loop test. *)
Call(s, e) ==
    /\ pc = "idle"
    /\ start' = s
    /\ end' = e
    /\ LET v == validate(s, e)
       IN  \/ /\ v = "search"
              /\ pc' = "loop"
              /\ result' = FALSE
              /\ locals' = SearchLocals
              /\ SetFrame(init_search(s))
           \/ /\ v \in {"True", "False"}
              /\ pc' = "done"
              /\ result' = (v = "True")
              /\ locals' = {}
              /\ SetFrame(NoFrame)
           \/ /\ v = "IndexError"
              /\ pc' = "raised"
              /\ result' = FALSE
              /\ locals' = {}
              /\ SetFrame(NoFrame)
    /\ todo' = << >>
    /\ closed' = {}
    /\ UNCHANGED <<solver, probe, earlier, other>>

(* Lines 63-81: the loop test succeeds; pop, goal check, early stop, and   *)
(* the call of _get_neighbors that starts the for loop.                    *)
Pop ==
    /\ pc = "loop"
    /\ open_set # {}
    /\ \E p \in {pop_and_check(CurrentFrame, end)} :
       \E neighbors \in {get_neighbors(p.frame.current)} :
           /\ SetFrame(p.frame)
           /\ todo' = IF p.outcome = "continue" THEN neighbors ELSE << >>
           /\ pc' = CASE p.outcome = "continue" /\ neighbors # << >> -> "visit"
                      [] p.outcome = "continue" /\ neighbors = << >> -> "loop"
                      [] p.outcome = "True" -> "done"
                      [] OTHER -> "raised"
           /\ result' = (p.outcome = "True")
           /\ closed' = closed \cup {p.frame.current}
    /\ UNCHANGED <<solver, start, end, locals, probe, earlier, other>>

(* Visit that also marks the visited neighbor in the grid. *)
Visit_marks_grid ==
    /\ pc = "visit"
    /\ todo # << >>
    /\ \E fr \in {visit(CurrentFrame, Head(todo), end)} : SetFrame(fr)
    /\ todo' = Tail(todo)
    /\ pc' = IF Tail(todo) = << >> THEN "loop" ELSE "visit"
    /\ maze' = [maze EXCEPT ![Head(todo)[1] + 1][Head(todo)[2] + 1] = 1]
    /\ UNCHANGED <<rows, cols, start, end, result, locals, probe, closed, earlier, other>>

(* Lines 81-93: the for loop handles its next neighbor. *)
Visit ==
    /\ pc = "visit"
    /\ todo # << >>
    /\ \E fr \in {visit(CurrentFrame, Head(todo), end)} : SetFrame(fr)
    /\ todo' = Tail(todo)
    /\ pc' = IF Tail(todo) = << >> THEN "loop" ELSE "visit"
    /\ UNCHANGED <<solver, start, end, result, locals, probe, closed, earlier, other>>

(* The loop test fails on an empty open_set: line 96. *)
Exhaust ==
    /\ pc = "loop"
    /\ open_set = {}
    /\ pc' = "done"
    /\ result' = FALSE
    /\ UNCHANGED <<solver, start, end, frame, probe, closed, earlier, other>>

(* find_path has returned: its frame is gone and the solver can be called *)
(* again.                                                                  *)
Return ==
    /\ pc = "done"
    /\ pc' = "idle"
    /\ start' = <<0, 0>>
    /\ end' = <<0, 0>>
    /\ result' = FALSE
    /\ locals' = {}
    /\ SetFrame(NoFrame)
    /\ todo' = << >>
    /\ closed' = {}
    /\ UNCHANGED <<solver, probe, earlier, other>>

Next ==
    \/ \E s \in Coords, e \in Coords : Call(s, e)
    \/ Pop
    \/ Visit
    \/ Exhaust
    \/ Return

Spec == Init /\ [][Next]_vars

(* One call of find_path: the interpreter runs a started call to its       *)
(* return, so the loop steps are weakly fair.                              *)
NextCall ==
    \/ \E s \in Coords, e \in Coords : Call(s, e)
    \/ Pop
    \/ Visit
    \/ Exhaust

FairSpec ==
    Init /\ [][NextCall]_vars /\ WF_vars(Pop) /\ WF_vars(Visit) /\ WF_vars(Exhaust)

----------------------------------------------------------------------------
(* Direct calls of the helper methods, as the unit tests make them. *)

CallHeuristic(a, b) ==
    /\ probe.fn = "none"
    /\ probe' = [fn |-> "heuristic", a |-> a, b |-> b,
                 ret |-> heuristic(a, b), list |-> << >>]
    /\ UNCHANGED <<solver, call, frame, closed, earlier, other>>

CallGetNeighbors(pos) ==
    /\ probe.fn = "none"
    /\ probe' = [fn |-> "get_neighbors", a |-> pos, b |-> <<0, 0>>,
                 ret |-> 0, list |-> get_neighbors(pos)]
    /\ UNCHANGED <<solver, call, frame, closed, earlier, other>>

ProbeReturn ==
    /\ probe.fn # "none"
    /\ probe' = NoProbe
    /\ UNCHANGED <<solver, call, frame, closed, earlier, other>>

NextFn ==
    \/ \E a \in Coords, b \in Coords : CallHeuristic(a, b)
    \/ \E pos \in Coords : CallGetNeighbors(pos)
    \/ ProbeReturn

SpecFn == Init /\ [][NextFn]_vars

----------------------------------------------------------------------------
(* A solver that answers one call after another: as Spec, and the return   *)
(* notes that later calls have a predecessor.                              *)

ReturnThenMore ==
    /\ pc = "done"
    /\ pc' = "idle"
    /\ start' = <<0, 0>>
    /\ end' = <<0, 0>>
    /\ result' = FALSE
    /\ locals' = {}
    /\ SetFrame(NoFrame)
    /\ todo' = << >>
    /\ closed' = {}
    /\ earlier' = TRUE
    /\ UNCHANGED <<solver, probe, other>>

NextSeq ==
    \/ \E s \in Coords, e \in Coords : Call(s, e)
    \/ Pop
    \/ Visit
    \/ Exhaust
    \/ ReturnThenMore

SpecSeq == Init /\ [][NextSeq]_vars

----------------------------------------------------------------------------
(* Two calls of find_path in flight on one solver.  The first call is the  *)
(* one of Spec; while it is in its loop a second caller asks the opposite  *)
(* question, and the loop iterations of the second call interleave with    *)
(* the steps of the first in any order.  Each call has its own locals      *)
(* (lines 54-61); self.maze, self.rows and self.cols are only read.        *)

(* The second call is made: lines 45-61. *)
OtherCall(s, e) ==
    /\ other.pc = "idle"
    /\ pc \in {"loop", "visit"}
    /\ \E v \in {validate(s, e)} :
          other' = [pc |-> CASE v = "search" -> "loop"
                             [] v = "IndexError" -> "raised"
                             [] OTHER -> "done",
                    start |-> s, end |-> e, result |-> (v = "True"),
                    frame |-> IF v = "search" THEN init_search(s) ELSE NoFrame]
    /\ UNCHANGED <<solver, call, frame, probe, closed, earlier>>

(* An iteration of the second call that keeps its membership set in the    *)
(* first call's open_set_hash.                                             *)
OtherStep_shared_hash ==
    /\ other.pc = "loop"
    /\ other.frame.open_set # {}
    /\ \E it \in {iteration([other.frame EXCEPT !.open_set_hash = open_set_hash],
                             other.end)} :
          /\ other' = [other EXCEPT !.frame = it.frame,
                                    !.pc = CASE it.outcome = "continue" -> "loop"
                                             [] it.outcome = "True" -> "done"
                                             [] OTHER -> "raised",
                                    !.result = (it.outcome = "True")]
          /\ open_set_hash' = it.frame.open_set_hash
    /\ UNCHANGED <<solver, call, locals, counter, open_set, g_score, best_goal_cost,
                   current_f, current, current_g, todo, probe, closed, earlier>>

(* Lines 63-93: one iteration of the second call's while loop. *)
OtherStep ==
    /\ other.pc = "loop"
    /\ other.frame.open_set # {}
    /\ \E it \in {iteration(other.frame, other.end)} :
          other' = [other EXCEPT !.frame = it.frame,
                                 !.pc = CASE it.outcome = "continue" -> "loop"
                                          [] it.outcome = "True" -> "done"
                                          [] OTHER -> "raised",
                                 !.result = (it.outcome = "True")]
    /\ UNCHANGED <<solver, call, frame, probe, closed, earlier>>

(* The second call's loop test fails: line 96. *)
OtherExhaust ==
    /\ other.pc = "loop"
    /\ other.frame.open_set = {}
    /\ other' = [other EXCEPT !.pc = "done", !.result = FALSE]
    /\ UNCHANGED <<solver, call, frame, probe, closed, earlier>>

----------------------------------------------------------------------------
(* Reference notions the properties are stated with: cells, one-step      *)
(* adjacency and path length, defined on the grid alone.                   *)

Cells == {<<r, c>> : r \in 0..(rows - 1), c \in 0..(cols - 1)}

OpenCells == {p \in Cells : maze[p[1] + 1][p[2] + 1] = 0}

OneStep(p, q) ==
    \/ p[1] = q[1] /\ (p[2] = q[2] + 1 \/ q[2] = p[2] + 1)
    \/ p[2] = q[2] /\ (p[1] = q[1] + 1 \/ q[1] = p[1] + 1)

NoPath == rows * cols   \* more steps than any path without repeated cells

(* Length of a shortest path of open cells from the cells in seen (all at  *)
(* n steps or fewer from the origin) to goal, NoPath when there is none.   *)
RECURSIVE PathLength(_, _, _)
PathLength(seen, goal, n) ==
    IF goal \in seen THEN n
    ELSE LET more == seen \cup {q \in OpenCells : \E p \in seen : OneStep(p, q)}
         IN  IF more = seen THEN NoPath ELSE PathLength(more, goal, n + 1)

ShortestPath(p, q) == PathLength({p}, q, 0)

Connected(p, q) == ShortestPath(p, q) # NoPath

ValidPair == start \in OpenCells /\ end \in OpenCells /\ start # end

----------------------------------------------------------------------------
(* C1: for distinct in-bounds open cells start and end, find_path returns  *)
(* True exactly when a 4-directional path of open cells joins them; it     *)
(* returns False across regions separated by walls.                        *)
C1_Reachability ==
    (pc = "done" /\ ValidPair) => (result <=> Connected(start, end))

C1_Witness ==
    /\ pc = "done"
    /\ ValidPair
    /\ ~Connected(start, end)
    /\ ~result
    /\ \E p \in DOMAIN g_score : p # start

(* C2: find_path returns False whenever start or end is out of bounds or   *)
(* a wall, whatever the other endpoint is.                                 *)
C2_InvalidEndpointFalse ==
    (pc = "done" /\ (start \notin OpenCells \/ end \notin OpenCells)) => ~result

C2_Witness ==
    /\ pc = "done"
    /\ start = end
    /\ start \in Cells \ OpenCells
    /\ ~result

(* C3: when find_path returns True from the search loop, best_goal_cost is *)
(* the length of a shortest path from start to end.                        *)
C3_GoalCostIsShortest ==
    (pc = "done" /\ ValidPair /\ result) => best_goal_cost = ShortestPath(start, end)

(* C4: find_path(p, p) on an in-bounds open cell returns True before any   *)
(* search state is created.                                                *)
C4_SameCellNoSearch ==
    (pc = "done" /\ start = end /\ start \in OpenCells) =>
        /\ result
        /\ locals = {}
        /\ CurrentFrame = NoFrame

C4_Witness ==
    /\ pc = "done"
    /\ start = end
    /\ start \in OpenCells
    /\ result

(* C5: find_path terminates: a call that entered the search loop returns   *)
(* after finitely many iterations.                                         *)
C5_Terminates == (pc \in {"loop", "visit"}) ~> (pc = "done")

C5_Witness ==
    /\ pc = "done"
    /\ locals = SearchLocals
    /\ open_set = {}
    /\ ~result
    /\ Cardinality(DOMAIN g_score) > 2

(* C6: swapping start and end never changes the answer of find_path.       *)
C6_Symmetric ==
    (pc = "done") => (result <=> (find_path(end, start) = "True"))

C6_Witness ==
    /\ pc = "done"
    /\ ValidPair
    /\ result
    /\ find_path(end, start) = "True"
    /\ start[1] < end[1]
    /\ start[2] < end[2]

(* C7: find_path never raises: every queued coordinate is an in-bounds     *)
(* cell with an entry in g_score, and out-of-bounds endpoints are rejected *)
(* before the grid is indexed.                                             *)
C7_NeverRaises ==
    /\ pc # "raised"
    /\ \A entry \in open_set : entry[3] \in Cells /\ entry[3] \in DOMAIN g_score
    /\ (pc = "done" /\ (start \notin Cells \/ end \notin Cells)) => locals = {}

C7_Witness ==
    /\ pc = "done"
    /\ start \in OpenCells
    /\ end[1] = rows
    /\ ~result

(* C8: _get_neighbors(pos) is exactly the in-bounds open cells among       *)
(* pos+(-1,0), pos+(1,0), pos+(0,-1), pos+(0,1), in that order: at most 4  *)
(* cells (2 for a corner), no wall, no out-of-bounds cell, no duplicate,   *)
(* no diagonal.                                                            *)
Corners == {<<0, 0>>, <<0, cols - 1>>, <<rows - 1, 0>>, <<rows - 1, cols - 1>>}

C8_Neighbors ==
    (probe.fn = "get_neighbors") =>
        LET pos == probe.a
            res == probe.list
            around == << <<pos[1] - 1, pos[2]>>, <<pos[1] + 1, pos[2]>>,
                         <<pos[1], pos[2] - 1>>, <<pos[1], pos[2] + 1>> >>
            IsOpen(q) == q \in OpenCells
        IN  /\ res = SelectSeq(around, IsOpen)
            /\ Len(res) <= 4
            /\ (pos \in Corners => Len(res) <= 2)
            /\ \A i \in 1..Len(res) :
                   /\ res[i] \in OpenCells
                   /\ OneStep(pos, res[i])
                   /\ \A j \in 1..Len(res) : res[i] = res[j] => i = j

C8_Witness ==
    /\ probe.fn = "get_neighbors"
    /\ probe.a \in Cells \ OpenCells
    /\ Len(probe.list) = 2
    /\ \E q \in Cells \ OpenCells : OneStep(probe.a, q)

(* C9: the heuristic is admissible: for open cells pos and goal joined by  *)
(* an open path, _heuristic(pos, goal) is at most the shortest path length.*)
C9_Admissible ==
    (probe.fn = "heuristic" /\ probe.a \in OpenCells /\ probe.b \in OpenCells
        /\ Connected(probe.a, probe.b)) =>
        probe.ret <= ShortestPath(probe.a, probe.b)

C9_Witness ==
    /\ probe.fn = "heuristic"
    /\ probe.a \in OpenCells
    /\ probe.b \in OpenCells
    /\ Connected(probe.a, probe.b)
    /\ probe.ret < ShortestPath(probe.a, probe.b)

(* C10: _heuristic(a, b) = |a.row - b.row| + |a.col - b.col|, hence it is  *)
(* symmetric, zero on equal arguments and never negative.                  *)
Span(x, y) == IF x <= y THEN y - x ELSE x - y

C10_Manhattan ==
    (probe.fn = "heuristic") =>
        /\ probe.ret = Span(probe.a[1], probe.b[1]) + Span(probe.a[2], probe.b[2])
        /\ probe.ret = heuristic(probe.b, probe.a)
        /\ probe.ret >= 0
        /\ (probe.a = probe.b => probe.ret = 0)

C10_Witness ==
    /\ probe.fn = "heuristic"
    /\ probe.a[1] < probe.b[1]
    /\ probe.a[2] > probe.b[2]
    /\ probe.ret > 0

----------------------------------------------------------------------------
(* C11: find_path leaves maze, rows and cols unchanged and keeps no state  *)
(* between calls: between calls no search local exists, and a call made    *)
(* after earlier calls returns what a fresh search on the grid returns.    *)
C11_NoStateBetweenCalls ==
    /\ [][solver' = solver]_vars
    /\ [](pc = "idle" => (locals = {} /\ CurrentFrame = NoFrame /\ todo = << >>))
    /\ []((pc = "done" /\ earlier) => (result <=> (find_path(start, end) = "True")))

C11_Witness ==
    /\ pc = "done"
    /\ earlier
    /\ ValidPair
    /\ result
    /\ Cardinality(DOMAIN g_score) > 2

(* C13: whenever the for loop finds for a neighbor a tentative_g lower     *)
(* than its recorded cost, or no recorded cost, g_score is updated and a   *)
(* new entry with f = tentative_g + h(neighbor, end) is pushed, also when  *)
(* the neighbor already has a pending entry.                               *)
Improves(neighbor) ==
    neighbor \notin DOMAIN g_score \/ current_g + 1 < g_score[neighbor]

C13_ImprovementPushed ==
    [][(pc = "visit" /\ todo # << >> /\ Improves(Head(todo))) =>
          /\ Head(todo) \in DOMAIN g_score'
          /\ g_score'[Head(todo)] = current_g + 1
          /\ <<current_g + 1 + heuristic(Head(todo), end), counter, Head(todo)>>
                 \in open_set' \ open_set]_vars

(* C14: when find_path returns True from the search loop, every coordinate *)
(* that still has an entry in the frontier has g + h at least              *)
(* best_goal_cost.                                                         *)
ReturnedTrueFromLoop == pc = "done" /\ result /\ locals = SearchLocals

C14_NoBetterPending ==
    ReturnedTrueFromLoop =>
        \A entry \in open_set :
            g_score[entry[3]] + heuristic(entry[3], end) >= best_goal_cost

(* C15: within one search the f values of the popped entries never         *)
(* decrease from one pop to the next.                                      *)
C15_PoppedFNonDecreasing ==
    [][(pc = "loop" /\ open_set # {} /\ closed # {}) => current_f' >= current_f]_vars

(* C16: the goal is popped at most once and find_path returns True at that *)
(* pop: no search goes on after a goal pop, so the min() branch of line 74 *)
(* never runs and the recorded cost is the cost read at the first goal pop.*)
C16_ReturnsAtFirstGoalPop ==
    /\ (pc \in {"loop", "visit"}) => (end \notin closed /\ best_goal_cost = None)
    /\ ReturnedTrueFromLoop =>
           (current = end /\ best_goal_cost = current_g /\ current_f >= current_g)

C16_Witness ==
    /\ ReturnedTrueFromLoop
    /\ current = end
    /\ Cardinality(closed) > 2
    /\ open_set # {}

(* C17: when the search loop is first entered, g_score holds only start    *)
(* with cost 0 and open_set holds one entry, for start, whose f is         *)
(* heuristic(start, end).                                                  *)
SearchJustInitialised == pc = "loop" /\ closed = {}

C17_InitialEntry ==
    SearchJustInitialised =>
        /\ g_score = (start :> 0)
        /\ \E entry \in open_set :
               /\ open_set = {entry}
               /\ entry[3] = start
               /\ entry[1] = heuristic(start, end)

(* C18: a coordinate that has just been popped has in g_score the length   *)
(* of a shortest open path from start, and no coordinate popped earlier in *)
(* the call is queued again.                                               *)
C18_PoppedCostIsShortest ==
    /\ pc = "visit" => current_g = ShortestPath(start, current)
    /\ (pc \in {"loop", "visit"}) => \A entry \in open_set : entry[3] \notin closed

(* C19: while a search runs, every step keeps each coordinate of g_score   *)
(* in it, never raises a recorded cost, keeps g_score[start] = 0, and a    *)
(* step that records a cost for its neighbor (the only steps that push)    *)
(* records one strictly lower than the cost the neighbor had.              *)
C19_CostsOnlyDecrease ==
    [][(pc \in {"loop", "visit"}) =>
          /\ DOMAIN g_score \subseteq DOMAIN g_score'
          /\ \A p \in DOMAIN g_score : g_score'[p] <= g_score[p]
          /\ start \in DOMAIN g_score' /\ g_score'[start] = 0
          /\ counter' # counter =>
                 \/ Head(todo) \notin DOMAIN g_score
                 \/ g_score'[Head(todo)] < g_score[Head(todo)]]_vars

C19_Witness ==
    /\ pc \in {"loop", "visit"}
    /\ \E entry \in open_set : entry[1] > g_score[entry[3]] + heuristic(entry[3], end)

(* C20: at the start of every iteration of the search loop a coordinate is *)
(* in open_set_hash exactly when open_set holds an entry for it.           *)
C20_HashMirrorsHeap ==
    pc = "loop" => open_set_hash = {entry[3] : entry \in open_set}

C20_Witness ==
    /\ pc = "loop"
    /\ Cardinality(open_set) > 1
    /\ Cardinality(closed) > 1
    /\ open_set_hash = {entry[3] : entry \in open_set}

(* The first call starts in a corner of the grid and ends in any cell; the *)
(* second call asks for the way back.                                      *)
NextPar ==
    \/ \E s \in Corners, e \in Cells : Call(s, e)
    \/ Pop
    \/ Visit
    \/ Exhaust
    \/ OtherCall(end, start)
    \/ OtherStep
    \/ OtherExhaust

SpecPar == Init /\ [][NextPar]_vars

(* C12: with two find_path calls in flight on one solver (the grid is not  *)
(* written) and their loop steps interleaved in any order, each call that  *)
(* has returned returned what find_path returns for its arguments when it  *)
(* runs alone, and neither call raises.                                    *)
C12_Interleaved ==
    /\ (pc = "done" /\ other.pc # "idle") =>
           (result <=> (find_path(start, end) = "True"))
    /\ other.pc = "done" =>
           (other.result <=> (find_path(other.start, other.end) = "True"))
    /\ other.pc # "idle" => (pc # "raised" /\ other.pc # "raised")

C12_Witness ==
    /\ other.pc = "done" /\ other.result
    /\ pc = "visit" /\ Cardinality(closed) > 2
    /\ Cardinality(DOMAIN other.frame.g_score) > 2
    /\ DOMAIN other.frame.g_score # DOMAIN g_score

----------------------------------------------------------------------------
(* Searches between cells of the grid: as Spec, called with in-bounds      *)
(* coordinates only.                                                       *)
NextSearch ==
    \/ \E s \in Cells, e \in Cells : Call(s, e)
    \/ Pop
    \/ Visit
    \/ Exhaust
    \/ Return

SpecSearch == Init /\ [][NextSearch]_vars

(* C21: the queued entries carry distinct insertion counters, all below    *)
(* the next counter to hand out; a push takes the next counter and         *)
(* advances it; a pop removes the entry with the lowest f and, among       *)
(* entries of equal f, the lowest counter (the one pushed first), so the   *)
(* order of coordinates never decides a pop.                               *)
FifoLess(a, b) == a[1] < b[1] \/ (a[1] = b[1] /\ a[2] < b[2])

C21_FifoAmongEqualF ==
    /\ [](pc \in {"loop", "visit"} =>
             \A a \in open_set :
                 /\ a[2] < counter
                 /\ \A b \in open_set : a # b => a[2] # b[2])
    /\ [][(pc = "visit" /\ open_set' # open_set) =>
             /\ open_set' \ open_set =
                    {<<g_score'[Head(todo)] + heuristic(Head(todo), end),
                       counter, Head(todo)>>}
             /\ open_set \subseteq open_set'
             /\ counter' = counter + 1]_vars
    /\ [][(pc = "loop" /\ open_set # {}) =>
             \E entry \in open_set :
                 /\ open_set' = open_set \ {entry}
                 /\ current' = entry[3]
                 /\ current_f' = entry[1]
                 /\ \A o \in open_set : o = entry \/ FifoLess(entry, o)]_vars

C21_Witness ==
    /\ pc = "visit"
    /\ closed # {}
    /\ \E o \in open_set :
           /\ o[1] = current_f
           /\ PosLess(o[3], current)
           /\ \A a \in open_set : a[2] < counter

(* C22: in every state of a search each key of g_score is an in-bounds     *)
(* open cell joined to start by open cells, its recorded cost is the       *)
(* length of an open 4-directional walk from start to it, and so is never  *)
(* below the length of a shortest one.                                     *)
RECURSIVE WalkEnds(_)
WalkEnds(n) ==
    IF n = 0 THEN {start} \cap OpenCells
    ELSE LET before == WalkEnds(n - 1)
         IN  {q \in OpenCells : \E p \in before : OneStep(p, q)}

C22_CostsAreWalkLengths ==
    locals = SearchLocals =>
        \A p \in DOMAIN g_score :
            /\ p \in OpenCells
            /\ Connected(start, p)
            /\ g_score[p] >= 0
            /\ p \in WalkEnds(g_score[p])
            /\ g_score[p] >= ShortestPath(start, p)

C22_Witness ==
    /\ locals = SearchLocals
    /\ pc = "visit"
    /\ \E p \in closed : g_score[p] > ShortestPath(start, p)
    /\ \A p \in DOMAIN g_score : p \in WalkEnds(g_score[p])

====
